---- MODULE Spec2Model ----
(***************************************************************************)
(* Job queue of whatsapp-root.                                             *)
(*                                                                         *)
(* Part I  models src/api/queue.js, the in-memory queue of the serverless  *)
(* deployment: the four collections of the module-level `queue` object,    *)
(* the job objects they share, the rows of the persistence adapter, and    *)
(* every async function as the sequence of its synchronous segments: a     *)
(* segment runs from one `await` to the next, and segments of different    *)
(* executions interleave freely, which is what the Node.js event loop      *)
(* allows when the awaited call performs I/O.                              *)
(***************************************************************************)
EXTENDS Integers, Sequences, FiniteSets, TLC

\* ------------------------------------------------------------------ bounds
MaxJobs == 2          \* addJob calls in one behaviour
MaxTime == 2          \* values of the millisecond clock Date.now()
MaxRetryCalls == 1    \* retryFailedJobs calls in one behaviour
MaxInflight == 2      \* async executions suspended at an await at one time
RetryJobs == 1        \* addJob calls in one behaviour of SpecRetry
RetryCalls == 4       \* retryFailedJobs calls in one behaviour of SpecRetry

MaxBullJobs == 2      \* addMessageToQueue calls in one behaviour of SpecBull
MaxBullRetries == 1   \* successful job.retry() calls in one behaviour of SpecBull

MaxDisconnects == 5   \* handleDisconnection calls
MaxRequests == 4      \* requests the serverless handler receives
MaxChats == 2         \* chats with a conversation history
MaxMessages == 11     \* messages added to the histories

\* ------------------------------------------------------- program constants
MaxAttempts == 3      \* defaultJobOptions.attempts; "Maximum attempts: 3"
BackoffBase == 1000   \* 1000 * Math.pow(2, reconnectAttempts)
BackoffCap == 30000   \* "Max 30 seconds"
DefaultHistoryLength == 10   \* AI_CONFIG.maxHistoryLength
Systems == {"initDatabase", "initQueue", "initAI", "initWhatsAppBot"}
Chats == 1..MaxChats

VARIABLES
  now,          \* Date.now(), in milliseconds
  jobs,         \* the job objects, by allocation order: [id, status,
                \* retryCount, completedAt], completedAt 0 while undefined
  pending,      \* queue.pending    (sequence of job objects)
  processing,   \* queue.processing
  completed,    \* queue.completed
  failed,       \* queue.failed
  dbJobs,       \* rows of queue_jobs / db.queueJobs: [jobId, status]
  adds,         \* addJob executions suspended at `await saveQueueJob`
  procs,        \* processJob executions suspended at an await: [jobId, job, pc]
  cancels,      \* cancelJob executions suspended at `await updateQueueJob`
  retry,        \* the retryFailedJobs execution: [pc, failedJobs, i]
  ret,          \* how the execution that took the last step ended, if it
                \* ended: <<function, job object, outcome>>
  attempts,     \* per job object: times processJob took it out of pending
  retryCalls,   \* retryFailedJobs calls so far
  \* ---- Part II, the BullMQ queue of the server deployment (queue.js)
  bq,           \* the jobs of 'whatsapp-message-queue', by the order of their
                \* uuid: [name, dataJobType, priority, state, attemptsMade]
  paused,       \* the queue is paused (queue.pause() / queue.resume())
  pauseAcked,   \* the latest acknowledged pause/resume request was a pause
  qrows,        \* per job: status of its queue_jobs row, "none" before the insert
  bsaves,       \* addMessageToQueue executions suspended at `await saveQueueJob`
  bretries,     \* successful job.retry() calls so far
  \* ---- Part III, the HTTP routes and the webhooks
  req,          \* body of the latest enqueue request a route has handled
  enabled,      \* process.env.WEBHOOK_ENABLED === 'true'
  hooks,        \* active rows of the webhooks table: [match, up], match for
                \* events.includes('message.new'), up for an endpoint that
                \* answers 2xx
  posts,        \* the POST requests sent with fetch, in order: [to, body, signed]
  tests,        \* POST /test executions suspended at `await fetch`
  triggers,     \* triggerWebhooks calls so far
  \* ---- Part IV, verifyWebhookSignature
  vin,          \* the arguments of the call: [payload, signature, secret]
  verdict,      \* what the call returned ("true", "false"), "none" before it
  \* ---- Part V, the browser session of the server deployment (playwright.js)
  browser,      \* the module's `browser`: "null", "open" or "closed"
  pageEvents,   \* 'close' / 'crash' events the registered pages can still emit
  reconnectAttempts,  \* the module's `reconnectAttempts`
  hd,           \* handleDisconnection executions suspended at an await:
                \* [pc, backoffTime, attempt]
  hdCalls,      \* handleDisconnection calls so far
  sinceConnected,     \* reconnection attempts since the bot last connected
  rpc,          \* where the reconnect() execution is: "idle", "close", "init"
  \* ---- Part VI, the serverless handler (api/index.js)
  systemsInitialized, \* the module's `systemsInitialized`
  hpc,          \* per request: where its handler execution is
  runs,         \* per init function: times it has been called
  dbRows,       \* rows saved in the in-memory `db` object since its creation
  initThrew,    \* an initializeSystems execution has thrown
  \* ---- Part VII, the conversation history (ai.js)
  AI_CONFIG,    \* [enabled, maxHistoryLength]
  zai,          \* the module's `zai` is a client (null before initAI)
  conversationHistory, \* per chat: its messages, oldest first (serial numbers)
  gens,         \* generateAIResponse executions suspended at the completion
                \* request: the chatId of each
  msgs          \* messages added to any history so far

memVars == <<now, jobs, pending, processing, completed, failed, dbJobs, adds,
             procs, cancels, retry, attempts, retryCalls>>
bullVars == <<bq, paused, pauseAcked, qrows, bsaves, bretries>>

routeVars == <<req>>
hookVars == <<enabled, hooks, posts, tests, triggers>>
sigVars == <<vin, verdict>>
botVars == <<browser, pageEvents, reconnectAttempts, hd, hdCalls,
             sinceConnected, rpc>>
bootVars == <<systemsInitialized, hpc, runs, dbRows, initThrew>>
aiVars == <<AI_CONFIG, zai, conversationHistory, gens, msgs>>
sysVars == <<botVars, bootVars, aiVars>>
webVars == <<routeVars, hookVars, sigVars, sysVars>>

vars == <<memVars, bullVars, webVars, ret>>

JobIds == 1..MaxTime
NoRet == <<"none", 0, "none">>
NoReq == [route |-> "none"]
NoInput == [payload |-> "none", signature |-> "none", secret |-> "none"]
Handles == 1..Len(jobs)

\* async executions that are suspended at an await
Inflight == Cardinality(adds) + Len(procs) + Len(cancels)
            + (IF retry.pc = "await" THEN 1 ELSE 0)

\* ------------------------------------------------------- array primitives
\* Array.prototype.findIndex(j => j.id === jobId); 0 stands for -1
FindIndex(js, arr, jobId) ==
  IF \E i \in 1..Len(arr) : js[arr[i]].id = jobId
    THEN CHOOSE i \in 1..Len(arr) :
           /\ js[arr[i]].id = jobId
           /\ \A k \in 1..(i-1) : js[arr[k]].id # jobId
    ELSE 0

\* Array.prototype.splice(i, 1): the array without its i-th element
Splice(arr, i) == SubSeq(arr, 1, i-1) \o SubSeq(arr, i+1, Len(arr))

\* Array.prototype.filter(j => j.id !== jobId)
FilterNotId(js, arr, jobId) ==
  LET keep(h) == js[h].id # jobId IN SelectSeq(arr, keep)

InSeq(arr, h) == \E i \in 1..Len(arr) : arr[i] = h

\* ---------------------------------------------------- persistence adapter
\* saveQueueJob: one more row, status 'pending' (src/api/db.js)
saveQueueJob(rows, jobId) == Append(rows, [jobId |-> jobId, status |-> "pending"])

\* updateQueueJob: the first row whose jobId matches gets the new status
updateQueueJob(rows, jobId, status) ==
  IF \E i \in 1..Len(rows) : rows[i].jobId = jobId
    THEN LET i == CHOOSE i \in 1..Len(rows) :
                    /\ rows[i].jobId = jobId
                    /\ \A k \in 1..(i-1) : rows[k].jobId # jobId
         IN [rows EXCEPT ![i].status = status]
    ELSE rows

\* ------------------------------------------------------------ queue state
\* The part of the state that processJob's first segment reads and writes.
St == [jobs |-> jobs, pending |-> pending, processing |-> processing,
       procs |-> procs, attempts |-> attempts]

\* processJob(jobId), from its call to its first await: take the job out of
\* pending, mark it processing, push it to processing, call updateQueueJob.
processJobStart(s, jobId) ==
  LET jobIndex == FindIndex(s.jobs, s.pending, jobId) IN
  IF jobIndex = 0
    THEN s
    ELSE LET job == s.pending[jobIndex] IN
         [s EXCEPT !.pending = Splice(s.pending, jobIndex),
                   !.jobs = [s.jobs EXCEPT ![job].status = "processing"],
                   !.processing = Append(s.processing, job),
                   !.procs = Append(s.procs, [jobId |-> jobId, job |-> job,
                                              pc |-> "upd_processing"]),
                   !.attempts = [s.attempts EXCEPT ![job] = @ + 1]]

\* the queues after construction
InitQueues ==
  /\ now = 1
  /\ jobs = <<>>
  /\ pending = <<>>
  /\ processing = <<>>
  /\ completed = <<>>
  /\ failed = <<>>
  /\ dbJobs = <<>>
  /\ adds = {}
  /\ procs = <<>>
  /\ cancels = <<>>
  /\ retry = [pc |-> "idle", failedJobs |-> <<>>, i |-> 0]
  /\ ret = NoRet
  /\ attempts = <<>>
  /\ retryCalls = 0
  /\ bq = <<>>
  /\ paused = FALSE
  /\ pauseAcked = FALSE
  /\ qrows = <<>>
  /\ bsaves = {}
  /\ bretries = 0
  /\ req = NoReq

\* no webhook registered, webhooks disabled (the default of .env)
InitHooksNone ==
  /\ enabled = FALSE
  /\ hooks = <<>>
  /\ posts = <<>>
  /\ tests = 0
  /\ triggers = 0

InitSigNone ==
  /\ vin = NoInput
  /\ verdict = "none"

\* the session, the serverless handler and the AI module after construction
InitSystems ==
  /\ browser = "null"
  /\ pageEvents = {}
  /\ reconnectAttempts = 0
  /\ hd = <<>>
  /\ hdCalls = 0
  /\ sinceConnected = 0
  /\ rpc = "idle"
  /\ systemsInitialized = FALSE
  /\ hpc = [r \in 1..MaxRequests |-> "none"]
  /\ runs = [s \in Systems |-> 0]
  /\ dbRows = 0
  /\ initThrew = FALSE
  /\ AI_CONFIG = [enabled |-> TRUE,     \* AI_ENABLED=true
                  maxHistoryLength |-> DefaultHistoryLength]
  /\ zai = FALSE
  /\ conversationHistory = [c \in Chats |-> <<>>]
  /\ gens = <<>>
  /\ msgs = 0

Init == InitQueues /\ InitHooksNone /\ InitSigNone /\ InitSystems

\* The millisecond clock advances.
Tick ==
  /\ now < MaxTime
  /\ now' = now + 1
  /\ ret' = NoRet
  /\ UNCHANGED <<jobs, pending, processing, completed, failed, dbJobs, adds,
                 procs, cancels, retry, attempts, retryCalls>>
  /\ UNCHANGED <<bullVars, webVars>>

\* addJob, up to `await saveQueueJob(...)`
addJobB(maxJobs) ==
  /\ Len(jobs) < maxJobs
  /\ Inflight < MaxInflight
  /\ LET job == Len(jobs) + 1 IN
       /\ jobs' = Append(jobs, [id |-> now, status |-> "pending", retryCount |-> 0,
                                completedAt |-> 0])
       /\ pending' = Append(pending, job)
       /\ adds' = adds \cup {job}
       /\ attempts' = Append(attempts, 0)
  /\ ret' = NoRet
  /\ UNCHANGED <<now, processing, completed, failed, dbJobs, procs, cancels,
                 retry, retryCalls>>
  /\ UNCHANGED bullVars

addJob == addJobB(MaxJobs) /\ UNCHANGED webVars

\* addJob resumes after `await saveQueueJob`: on success it calls
\* processJob(job.id), which runs to its first await, and returns the job
\* object; when saveQueueJob threw, addJob logs and rethrows.
addJobResume(job, ok) ==
  /\ job \in adds
  /\ adds' = adds \ {job}
  /\ IF ok
       THEN LET s == processJobStart(St, jobs[job].id) IN
              /\ dbJobs' = saveQueueJob(dbJobs, jobs[job].id)
              /\ jobs' = s.jobs
              /\ pending' = s.pending
              /\ processing' = s.processing
              /\ procs' = s.procs
              /\ attempts' = s.attempts
              /\ ret' = <<"addJob", job, s.jobs[job].status>>
       ELSE /\ ret' = <<"addJob", job, "threw">>
            /\ UNCHANGED <<dbJobs, jobs, pending, processing, procs, attempts>>
  /\ UNCHANGED <<now, completed, failed, cancels, retry, retryCalls>>
  /\ UNCHANGED <<bullVars, webVars>>

\* The catch block of processJob, run by execution k: the job found in
\* processing under the execution's jobId moves to failed and the execution
\* awaits updateQueueJob(failed); when none is found the execution ends.
processJobCatch(k) ==
  LET jobId == procs[k].jobId
      jobIndex == FindIndex(jobs, processing, jobId) IN
  IF jobIndex # 0
    THEN LET job == processing[jobIndex] IN
           /\ processing' = Splice(processing, jobIndex)
           /\ jobs' = [jobs EXCEPT ![job].status = "failed"]
           /\ failed' = Append(failed, job)
           /\ procs' = [procs EXCEPT ![k] = [jobId |-> jobId, job |-> job,
                                             pc |-> "upd_failed"]]
           /\ ret' = NoRet
    ELSE /\ procs' = Splice(procs, k)
         /\ ret' = <<"processJob", procs[k].job, "returned">>
         /\ UNCHANGED <<processing, jobs, failed>>

\* processJob resumes after `await updateQueueJob(jobId, {status: 'processing'})`
processJobUpdatedProcessing(k, ok) ==
  /\ k \in 1..Len(procs)
  /\ procs[k].pc = "upd_processing"
  /\ IF ok
       THEN /\ dbJobs' = updateQueueJob(dbJobs, procs[k].jobId, "processing")
            /\ procs' = [procs EXCEPT ![k].pc = "timer"]
            /\ ret' = NoRet
            /\ UNCHANGED <<processing, jobs, failed>>
       ELSE /\ processJobCatch(k)
            /\ UNCHANGED dbJobs
  /\ UNCHANGED <<now, pending, completed, adds, cancels, retry, attempts,
                 retryCalls>>
  /\ UNCHANGED <<bullVars, webVars>>

\* processJob resumes after the simulated delivery (setTimeout 1000): the
\* job is marked completed, every job with its id is filtered out of
\* processing, the job is pushed to completed.
processJobDelivered(k) ==
  /\ k \in 1..Len(procs)
  /\ procs[k].pc = "timer"
  /\ LET job == procs[k].job IN
       /\ jobs' = [jobs EXCEPT ![job].status = "completed",
                                ![job].completedAt = now]
       /\ processing' = FilterNotId(jobs, processing, procs[k].jobId)
       /\ completed' = Append(completed, job)
       /\ procs' = [procs EXCEPT ![k].pc = "upd_completed"]
  /\ ret' = NoRet
  /\ UNCHANGED <<now, pending, failed, dbJobs, adds, cancels, retry, attempts,
                 retryCalls>>
  /\ UNCHANGED <<bullVars, webVars>>

\* processJob resumes after `await updateQueueJob(jobId, {status: 'completed'})`
processJobUpdatedCompleted(k, ok) ==
  /\ k \in 1..Len(procs)
  /\ procs[k].pc = "upd_completed"
  /\ IF ok
       THEN /\ dbJobs' = updateQueueJob(dbJobs, procs[k].jobId, "completed")
            /\ procs' = Splice(procs, k)
            /\ ret' = <<"processJob", procs[k].job, "returned">>
            /\ UNCHANGED <<processing, jobs, failed>>
       ELSE /\ processJobCatch(k)
            /\ UNCHANGED dbJobs
  /\ UNCHANGED <<now, pending, completed, adds, cancels, retry, attempts,
                 retryCalls>>
  /\ UNCHANGED <<bullVars, webVars>>

\* processJob resumes, inside its catch block, after
\* `await updateQueueJob(jobId, {status: 'failed'})`; a throw here leaves
\* the promise of processJob rejected, and no caller handles it.
processJobUpdatedFailed(k, ok) ==
  /\ k \in 1..Len(procs)
  /\ procs[k].pc = "upd_failed"
  /\ procs' = Splice(procs, k)
  /\ IF ok
       THEN /\ dbJobs' = updateQueueJob(dbJobs, procs[k].jobId, "failed")
            /\ ret' = <<"processJob", procs[k].job, "returned">>
       ELSE /\ ret' = <<"processJob", procs[k].job, "rejected">>
            /\ UNCHANGED dbJobs
  /\ UNCHANGED <<now, jobs, pending, processing, completed, failed, adds,
                 cancels, retry, attempts, retryCalls>>
  /\ UNCHANGED <<bullVars, webVars>>

\* cancelJob(jobId), up to `await updateQueueJob`, or to `return false`
cancelJob(jobId) ==
  LET pendingIndex == FindIndex(jobs, pending, jobId) IN
  /\ IF pendingIndex # 0
       THEN LET job == pending[pendingIndex] IN
              /\ Inflight < MaxInflight
              /\ pending' = Splice(pending, pendingIndex)
              /\ jobs' = [jobs EXCEPT ![job].status = "cancelled"]
              /\ failed' = Append(failed, job)
              /\ cancels' = Append(cancels, [jobId |-> jobId, job |-> job])
              /\ ret' = NoRet
       ELSE /\ ret' = <<"cancelJob", jobId, "false">>
            /\ UNCHANGED <<pending, jobs, failed, cancels>>
  /\ UNCHANGED <<now, processing, completed, dbJobs, adds, procs, retry,
                 attempts, retryCalls>>
  /\ UNCHANGED <<bullVars, webVars>>

\* cancelJob resumes after `await updateQueueJob(jobId, {status: 'cancelled'})`
\* and returns true, or rethrows what updateQueueJob threw.
cancelJobResume(k, ok) ==
  /\ k \in 1..Len(cancels)
  /\ cancels' = Splice(cancels, k)
  /\ IF ok
       THEN /\ dbJobs' = updateQueueJob(dbJobs, cancels[k].jobId, "cancelled")
            /\ ret' = <<"cancelJob", cancels[k].jobId, "true">>
       ELSE /\ ret' = <<"cancelJob", cancels[k].jobId, "threw">>
            /\ UNCHANGED dbJobs
  /\ UNCHANGED <<now, jobs, pending, processing, completed, failed, adds,
                 procs, retry, attempts, retryCalls>>
  /\ UNCHANGED <<bullVars, webVars>>

\* clearCompletedJobs
clearCompletedJobs ==
  /\ completed # <<>>
  /\ completed' = <<>>
  /\ ret' = <<"clearCompletedJobs", 0, "true">>
  /\ UNCHANGED <<now, jobs, pending, processing, failed, dbJobs, adds, procs,
                 cancels, retry, attempts, retryCalls>>
  /\ UNCHANGED <<bullVars, webVars>>

\* One iteration of the loop of retryFailedJobs up to its await: the job
\* becomes pending again and its retryCount grows.
retryRequeue(js, job) ==
  [js EXCEPT ![job].status = "pending", ![job].retryCount = @ + 1]

\* retryFailedJobs, up to the first `await updateQueueJob` of its loop
\* (a call that finds queue.failed empty returns 0 and changes nothing)
retryFailedJobsB(maxCalls) ==
  /\ retry.pc = "idle"
  /\ failed # <<>>
  /\ retryCalls < maxCalls
  /\ Inflight < MaxInflight
  /\ retryCalls' = retryCalls + 1
  /\ failed' = <<>>
  /\ jobs' = retryRequeue(jobs, failed[1])
  /\ pending' = Append(pending, failed[1])
  /\ retry' = [pc |-> "await", failedJobs |-> failed, i |-> 1]
  /\ ret' = NoRet
  /\ UNCHANGED <<now, processing, completed, dbJobs, adds, procs, cancels,
                 attempts>>
  /\ UNCHANGED <<bullVars, webVars>>

retryFailedJobs == retryFailedJobsB(MaxRetryCalls)

\* retryFailedJobs resumes after `await updateQueueJob(job.id, {status:
\* 'pending', ...})`: it calls processJob(job.id) and goes on to the next job
\* of its snapshot; when updateQueueJob threw it rethrows, and the jobs of the
\* snapshot not yet reached stay out of every collection.
retryFailedJobsResume(ok) ==
  /\ retry.pc = "await"
  /\ (ok /\ retry.i < Len(retry.failedJobs)) => Inflight < MaxInflight
  /\ LET job == retry.failedJobs[retry.i] IN
     IF ok
       THEN LET s == processJobStart(St, jobs[job].id) IN
              /\ dbJobs' = updateQueueJob(dbJobs, jobs[job].id, "pending")
              /\ processing' = s.processing
              /\ procs' = s.procs
              /\ attempts' = s.attempts
              /\ IF retry.i < Len(retry.failedJobs)
                   THEN LET nxt == retry.failedJobs[retry.i + 1] IN
                          /\ jobs' = retryRequeue(s.jobs, nxt)
                          /\ pending' = Append(s.pending, nxt)
                          /\ retry' = [retry EXCEPT !.i = @ + 1]
                          /\ ret' = NoRet
                   ELSE /\ jobs' = s.jobs
                        /\ pending' = s.pending
                        /\ retry' = [pc |-> "idle", failedJobs |-> <<>>, i |-> 0]
                        /\ ret' = <<"retryFailedJobs", 0, "returned">>
       ELSE /\ retry' = [pc |-> "idle", failedJobs |-> <<>>, i |-> 0]
            /\ ret' = <<"retryFailedJobs", 0, "threw">>
            /\ UNCHANGED <<dbJobs, jobs, pending, processing, procs, attempts>>
  /\ UNCHANGED <<now, completed, failed, adds, cancels, retryCalls>>
  /\ UNCHANGED <<bullVars, webVars>>

Next ==
  \/ Tick
  \/ addJob
  \/ \E job \in adds, ok \in BOOLEAN : addJobResume(job, ok)
  \/ \E k \in 1..Len(procs), ok \in BOOLEAN : processJobUpdatedProcessing(k, ok)
  \/ \E k \in 1..Len(procs) : processJobDelivered(k)
  \/ \E k \in 1..Len(procs), ok \in BOOLEAN : processJobUpdatedCompleted(k, ok)
  \/ \E k \in 1..Len(procs), ok \in BOOLEAN : processJobUpdatedFailed(k, ok)
  \/ \E jobId \in JobIds : cancelJob(jobId)
  \/ \E k \in 1..Len(cancels), ok \in BOOLEAN : cancelJobResume(k, ok)
  \/ clearCompletedJobs
  \/ retryFailedJobs
  \/ \E ok \in BOOLEAN : retryFailedJobsResume(ok)

Spec == Init /\ [][Next]_vars

\* The same queue with one job and a long series of retryFailedJobs calls.
NextRetry ==
  \/ Tick
  \/ addJobB(RetryJobs) /\ UNCHANGED webVars
  \/ \E job \in adds, ok \in BOOLEAN : addJobResume(job, ok)
  \/ \E k \in 1..Len(procs), ok \in BOOLEAN : processJobUpdatedProcessing(k, ok)
  \/ \E k \in 1..Len(procs) : processJobDelivered(k)
  \/ \E k \in 1..Len(procs), ok \in BOOLEAN : processJobUpdatedCompleted(k, ok)
  \/ \E k \in 1..Len(procs), ok \in BOOLEAN : processJobUpdatedFailed(k, ok)
  \/ \E jobId \in JobIds : cancelJob(jobId)
  \/ \E k \in 1..Len(cancels), ok \in BOOLEAN : cancelJobResume(k, ok)
  \/ clearCompletedJobs
  \/ retryFailedJobsB(RetryCalls)
  \/ \E ok \in BOOLEAN : retryFailedJobsResume(ok)

SpecRetry == Init /\ [][NextRetry]_vars


(***************************************************************************)
(* Part II models src/queue.js (BullMQ) and the queue routes.  The queue   *)
(* and its worker are BullMQ objects: the module configures them (3        *)
(* attempts, exponential backoff, concurrency 1) and calls add, pause,     *)
(* resume, getJob, retry and remove; the worker loop that those calls      *)
(* drive is the one spec.md section 4.1 describes.                         *)
(***************************************************************************)
BullIds == 1..MaxBullJobs
Exists(id) == id <= Len(bq) /\ bq[id].state # "removed"

\* jobOptions.priority of addMessageToQueue
PriorityOf(priority) ==
  IF priority = "high" THEN 10 ELSE IF priority = "low" THEN 1 ELSE 5

\* processJob(job): the switch over the jobType field of job.data
processJobDispatch(dataJobType) ==
  CASE dataJobType = "send_message" -> "sent"
    [] dataJobType = "send_media" -> "sent"
    [] dataJobType = "send_template" -> "sent"
    [] OTHER -> "throw"

\* updateQueueJob of src/db.js: UPDATE queue_jobs ... WHERE job_id = ?
bullUpdateQueueJob(rows, id, status) ==
  IF rows[id] = "none" THEN rows ELSE [rows EXCEPT ![id] = status]

\* addMessageToQueue, up to `await saveQueueJob`: a fresh uuid, and
\* queue.add(jobType, {recipient, content, mediaUrl, mediaType}, jobOptions)
\* with a delay of 1000..3000 ms; the data carries no jobType field.
addMessageToQueue(jobType, priority) ==
  /\ Len(bq) < MaxBullJobs
  /\ bq' = Append(bq, [name |-> jobType, dataJobType |-> "undefined",
                       priority |-> PriorityOf(priority), state |-> "delayed",
                       attemptsMade |-> 0])
  /\ qrows' = Append(qrows, "none")
  /\ bsaves' = bsaves \cup {Len(bq) + 1}
  /\ ret' = NoRet
  /\ UNCHANGED <<paused, pauseAcked, bretries>>
  /\ UNCHANGED memVars

\* addMessageToQueue resumes after `await saveQueueJob` and returns
\* {jobId, status: 'queued', ...}, or rethrows.
addMessageToQueueResume(id, ok) ==
  /\ id \in bsaves
  /\ bsaves' = bsaves \ {id}
  /\ IF ok
       THEN /\ qrows' = [qrows EXCEPT ![id] = "pending"]
            /\ ret' = <<"addMessageToQueue", id, "queued">>
       ELSE /\ ret' = <<"addMessageToQueue", id, "threw">>
            /\ UNCHANGED qrows
  /\ UNCHANGED <<bq, paused, pauseAcked, bretries>>
  /\ UNCHANGED <<memVars, webVars>>

\* The delay of a job (jobOptions.delay, or the backoff after a failed
\* attempt) has elapsed: the job waits for the worker.
delayElapsed(id) ==
  /\ id \in 1..Len(bq)
  /\ bq[id].state = "delayed"
  /\ bq' = [bq EXCEPT ![id].state = "waiting"]
  /\ ret' = NoRet
  /\ UNCHANGED <<paused, pauseAcked, qrows, bsaves, bretries>>
  /\ UNCHANGED <<memVars, webVars>>

\* The worker (concurrency 1) takes a waiting job unless the queue is paused.
workerTake(id) ==
  /\ id \in 1..Len(bq)
  /\ ~paused
  /\ bq[id].state = "waiting"
  /\ \A other \in 1..Len(bq) : bq[other].state # "active"
  /\ bq' = [bq EXCEPT ![id].state = "active"]
  /\ ret' = NoRet
  /\ UNCHANGED <<paused, pauseAcked, qrows, bsaves, bretries>>
  /\ UNCHANGED <<memVars, webVars>>

\* The worker runs processJob on the active job.  A result completes the
\* job; a throw counts an attempt and sends the job back through the backoff
\* delay until the attempts are used up, then to failed.  The 'completed'
\* and 'failed' listeners of initQueue write the status to the database.
workerFinish(id, ok) ==
  /\ id \in 1..Len(bq)
  /\ bq[id].state = "active"
  /\ IF processJobDispatch(bq[id].dataJobType) = "sent"
       THEN /\ bq' = [bq EXCEPT ![id].state = "completed",
                                ![id].attemptsMade = @ + 1]
            /\ qrows' = IF ok THEN bullUpdateQueueJob(qrows, id, "completed")
                              ELSE qrows
       ELSE /\ bq' = [bq EXCEPT ![id].attemptsMade = @ + 1,
                                ![id].state = IF bq[id].attemptsMade + 1 < MaxAttempts
                                                THEN "delayed" ELSE "failed"]
            /\ qrows' = IF ok THEN bullUpdateQueueJob(qrows, id, "failed")
                              ELSE qrows
  /\ ret' = NoRet
  /\ UNCHANGED <<paused, pauseAcked, bsaves, bretries>>
  /\ UNCHANGED <<memVars, webVars>>

\* pauseQueue that acknowledges the request without pausing the queue
pauseQueue_NotPausing ==
  /\ pauseAcked' = TRUE
  /\ ret' = NoRet
  /\ UNCHANGED <<paused, bq, qrows, bsaves, bretries>>
  /\ UNCHANGED <<memVars, webVars>>

\* pauseQueue, and POST /pause: queue.pause(), then the acknowledgement
pauseQueue ==
  /\ paused' = TRUE
  /\ pauseAcked' = TRUE
  /\ ret' = NoRet
  /\ UNCHANGED <<bq, qrows, bsaves, bretries>>
  /\ UNCHANGED <<memVars, webVars>>

\* resumeQueue, and POST /resume: queue.resume(), then the acknowledgement
resumeQueue ==
  /\ paused' = FALSE
  /\ pauseAcked' = FALSE
  /\ ret' = NoRet
  /\ UNCHANGED <<bq, qrows, bsaves, bretries>>
  /\ UNCHANGED <<memVars, webVars>>

\* POST /:id/retry: 404 for no job, 400 unless the job's state is failed,
\* else job.retry() and updateQueueJob(id, {status: 'pending', ...}); an
\* error of the update is answered with 500.
retryRoute(id, ok) ==
  /\ IF ~Exists(id)
       THEN /\ ret' = <<"retry", id, "404">>
            /\ UNCHANGED <<bq, qrows, bretries>>
       ELSE IF bq[id].state # "failed"
         THEN /\ ret' = <<"retry", id, "400">>
              /\ UNCHANGED <<bq, qrows, bretries>>
         ELSE /\ bretries < MaxBullRetries
              /\ bretries' = bretries + 1
              /\ bq' = [bq EXCEPT ![id].state = "waiting"]
              /\ qrows' = IF ok THEN bullUpdateQueueJob(qrows, id, "pending")
                                ELSE qrows
              /\ ret' = <<"retry", id, IF ok THEN "success" ELSE "500">>
  /\ UNCHANGED <<paused, pauseAcked, bsaves>>
  /\ UNCHANGED <<memVars, webVars>>

\* POST /:id/cancel: 404 for no job, else job.remove() whatever the job's
\* state (BullMQ refuses to remove a job that a worker holds: 500), then
\* updateQueueJob(id, {status: 'cancelled'}).
cancelRoute(id, ok) ==
  /\ IF ~Exists(id)
       THEN /\ ret' = <<"cancel", id, "404">>
            /\ UNCHANGED <<bq, qrows>>
       ELSE IF bq[id].state = "active"
         THEN /\ ret' = <<"cancel", id, "500">>
              /\ UNCHANGED <<bq, qrows>>
         ELSE /\ bq' = [bq EXCEPT ![id].state = "removed"]
              /\ qrows' = IF ok THEN bullUpdateQueueJob(qrows, id, "cancelled")
                                ELSE qrows
              /\ ret' = <<"cancel", id, IF ok THEN "success" ELSE "500">>
  /\ UNCHANGED <<paused, pauseAcked, bsaves, bretries>>
  /\ UNCHANGED <<memVars, webVars>>

InitBull == Init

NextBull ==
  \/ \E jobType \in {"send_message"}, priority \in {"normal", "high"} :
       addMessageToQueue(jobType, priority) /\ UNCHANGED webVars
  \/ \E id \in bsaves, ok \in BOOLEAN : addMessageToQueueResume(id, ok)
  \/ \E id \in BullIds : delayElapsed(id)
  \/ \E id \in BullIds : workerTake(id)
  \/ \E id \in BullIds, ok \in BOOLEAN : workerFinish(id, ok)
  \/ pauseQueue
  \/ resumeQueue
  \/ \E id \in BullIds, ok \in BOOLEAN : retryRoute(id, ok)
  \/ \E id \in BullIds, ok \in BOOLEAN : cancelRoute(id, ok)

SpecBull == InitBull /\ [][NextBull]_vars

\* The queue under enqueue, pause and resume alone.
NextPause ==
  \/ \E jobType \in {"send_message"}, priority \in {"normal"} :
       addMessageToQueue(jobType, priority) /\ UNCHANGED webVars
  \/ \E id \in bsaves, ok \in BOOLEAN : addMessageToQueueResume(id, ok)
  \/ \E id \in BullIds : delayElapsed(id)
  \/ \E id \in BullIds : workerTake(id)
  \/ \E id \in BullIds, ok \in BOOLEAN : workerFinish(id, ok)
  \/ pauseQueue
  \/ resumeQueue

\* The Redis timers fire and the worker loop runs: a delay that has elapsed
\* is noticed, a job that can be taken is taken, processJob returns or throws.
FairSpecPause ==
  /\ InitBull /\ [][NextPause]_vars
  /\ \A id \in BullIds : WF_vars(delayElapsed(id))
  /\ \A id \in BullIds : WF_vars(workerTake(id))
  /\ \A id \in BullIds : WF_vars(\E ok \in BOOLEAN : workerFinish(id, ok))

(***************************************************************************)
(* Part III models the HTTP routes that enqueue: POST /add of the          *)
(* serverless deployment (src/api/routes/queue.js) and POST /send of the   *)
(* server deployment (src/routes/whatsapp.js).  A body is the set of       *)
(* fields the route reads; a field that is absent or empty is FALSE (the   *)
(* type "none" for an absent type).                                        *)
(***************************************************************************)
AddJobs == 1          \* POST /add requests that reach addJob in one behaviour

\* the job types processJob knows (src/queue.js, README_IMPLEMENT.md)
RecognizedTypes == {"send_message", "send_media", "send_template"}

AddBodies ==
  [route : {"add"}, type : {"send_message", "bogus", "none"},
   recipient : BOOLEAN, content : BOOLEAN, mediaUrl : BOOLEAN,
   mediaType : BOOLEAN]

SendBodies ==
  [route : {"send"}, type : {"send_message"}, recipient : BOOLEAN,
   content : BOOLEAN, mediaUrl : BOOLEAN, mediaType : BOOLEAN]

\* POST /add: `if (!type || !recipient) throw new ValidationError(...)`,
\* else addJob({type, recipient, content, mediaUrl, mediaType})
addRoute(body) ==
  /\ req' = body
  /\ IF body.type = "none" \/ ~body.recipient
       THEN /\ ret' = <<"add", 0, "400">>
            /\ UNCHANGED <<memVars, bullVars>>
       ELSE addJobB(AddJobs)
  /\ UNCHANGED <<hookVars, sigVars, sysVars>>

\* POST /send: 400 when the recipient is empty, when content and mediaUrl
\* are both missing, when mediaUrl comes without mediaType; else
\* addMessageToQueue({recipient, content, mediaUrl, mediaType, priority}),
\* whose jobType defaults to 'send_message'.
sendRoute(body, priority) ==
  /\ req' = body
  /\ IF \/ ~body.recipient
        \/ (~body.content /\ ~body.mediaUrl)
        \/ (body.mediaUrl /\ ~body.mediaType)
       THEN /\ ret' = <<"send", 0, "400">>
            /\ UNCHANGED <<memVars, bullVars>>
       ELSE addMessageToQueue("send_message", priority)
  /\ UNCHANGED <<hookVars, sigVars, sysVars>>

NextAdd ==
  \/ \E body \in AddBodies : addRoute(body)
  \/ \E job \in adds, ok \in BOOLEAN : addJobResume(job, ok)
  \/ \E k \in 1..Len(procs), ok \in BOOLEAN : processJobUpdatedProcessing(k, ok)
  \/ \E k \in 1..Len(procs) : processJobDelivered(k)
  \/ \E k \in 1..Len(procs), ok \in BOOLEAN : processJobUpdatedCompleted(k, ok)
  \/ \E k \in 1..Len(procs), ok \in BOOLEAN : processJobUpdatedFailed(k, ok)
  \/ \E body \in SendBodies, priority \in {"normal", "high"} :
       sendRoute(body, priority)
  \/ \E id \in bsaves, ok \in BOOLEAN : addMessageToQueueResume(id, ok)

SpecAdd == Init /\ [][NextAdd]_vars

\* getJob(jobId): the first job with that id in pending, processing,
\* completed, failed; else the row of getQueueJobs whose job_id is jobId.
\* "undefined" when there is none, "memory" or "database" for a job found.
getJob(jobId) ==
  IF FindIndex(jobs, pending \o processing \o completed \o failed, jobId) # 0
    THEN "memory"
    ELSE IF \E i \in 1..Len(dbJobs) :
              "job_id" \in DOMAIN dbJobs[i] /\ dbJobs[i].job_id = jobId
      THEN "database"
      ELSE "undefined"

\* GET /job/:jobId: `if (!job) throw new ValidationError('Job not found')`,
\* which errorHandler answers with status 400; else the job, status 200.
getJobRoute(jobId) ==
  /\ ret' = <<"getJob", jobId, IF getJob(jobId) = "undefined" THEN "400" ELSE "200">>
  /\ UNCHANGED <<memVars, bullVars, webVars>>

\* POST /job/:jobId/cancel: the status of the response for what cancelJob
\* returned: success: true with one of two messages, or the 500 of
\* errorHandler when cancelJob threw.
cancelJobResponse(result) ==
  IF result = "threw" THEN "500" ELSE "200"

\* The in-memory queue with its lookup route.
NextLookup ==
  \/ Tick
  \/ addJobB(AddJobs) /\ UNCHANGED webVars
  \/ \E job \in adds, ok \in BOOLEAN : addJobResume(job, ok)
  \/ \E k \in 1..Len(procs), ok \in BOOLEAN : processJobUpdatedProcessing(k, ok)
  \/ \E k \in 1..Len(procs) : processJobDelivered(k)
  \/ \E k \in 1..Len(procs), ok \in BOOLEAN : processJobUpdatedCompleted(k, ok)
  \/ \E k \in 1..Len(procs), ok \in BOOLEAN : processJobUpdatedFailed(k, ok)
  \/ \E jobId \in JobIds : cancelJob(jobId)
  \/ \E k \in 1..Len(cancels), ok \in BOOLEAN : cancelJobResume(k, ok)
  \/ clearCompletedJobs
  \/ \E jobId \in JobIds : getJobRoute(jobId)

SpecLookup == Init /\ [][NextLookup]_vars

\* rows of the database view of getQueueStatus with a status
CountRows(status) ==
  Cardinality({i \in 1..Len(dbJobs) : dbJobs[i].status = status})

\* getQueueStatus: the lengths of the four collections, and the rows of
\* getQueueJobs() counted by status
getQueueStatus ==
  [inMemory |-> [pending |-> Len(pending), processing |-> Len(processing),
                 completed |-> Len(completed), failed |-> Len(failed)],
   database |-> [pending |-> CountRows("pending"),
                 processing |-> CountRows("processing"),
                 completed |-> CountRows("completed"),
                 failed |-> CountRows("failed")]]

\* The in-memory queue with a persistence adapter that never throws.
NextStatus ==
  \/ Tick
  \/ addJob
  \/ \E job \in adds : addJobResume(job, TRUE)
  \/ \E k \in 1..Len(procs) : processJobUpdatedProcessing(k, TRUE)
  \/ \E k \in 1..Len(procs) : processJobDelivered(k)
  \/ \E k \in 1..Len(procs) : processJobUpdatedCompleted(k, TRUE)
  \/ \E jobId \in JobIds : cancelJob(jobId)
  \/ \E k \in 1..Len(cancels) : cancelJobResume(k, TRUE)
  \/ clearCompletedJobs
  \/ retryFailedJobs
  \/ retryFailedJobsResume(TRUE)

SpecStatus == Init /\ [][NextStatus]_vars

(***************************************************************************)
(* Webhooks: the fan-out of src/playwright.js on a new inbound message,    *)
(* and POST /api/webhook/test of src/routes/webhook.js.                    *)
(***************************************************************************)
MaxHooks == 3         \* active rows of the webhooks table
MaxTriggers == 2      \* triggerWebhooks calls in one behaviour
MaxTests == 2         \* POST /test requests that reach fetch in one behaviour

\* the names bound in the module scope of src/playwright.js: its imports
\* and its own declarations
PlaywrightScope ==
  {"chromium", "logger", "uuidv4", "saveMessage", "saveSession",
   "updateSessionStatus", "parseMessageData", "triggerWebhooks",
   "processWithAI", "setupPageEventListeners", "handleDisconnection",
   "sendMessage", "sendTextMessage", "sendMediaMessage", "openChat",
   "getQRCode", "getSessionStatus", "addMessageHandler",
   "removeMessageHandler", "reconnect", "cleanup"}

\* createWebhookPayload(event, data) of utils/webhook.js
createWebhookPayload(event, data) ==
  [event |-> event, timestamp |-> now, data |-> data, version |-> "1.0"]

\* the testData object of POST /test
testData(event) ==
  [event |-> event, timestamp |-> now, data |-> "test"]

HookRows == [match : BOOLEAN, up : BOOLEAN]

\* the webhooks table and the environment at process start
InitHooks ==
  /\ enabled \in BOOLEAN
  /\ hooks \in [1..MaxHooks -> HookRows]
  /\ posts = <<>>
  /\ tests = 0
  /\ triggers = 0

\* triggerWebhooks(message).  With webhooks disabled it returns at once.
\* Otherwise it evaluates `getWebhooks()`: the name is bound nowhere in the
\* module, the ReferenceError is caught by the outer catch, which logs
\* 'Failed to trigger webhooks' and returns; the loop over the webhooks and
\* its sendWebhook calls are never reached.
triggerWebhooks ==
  /\ triggers < MaxTriggers
  /\ triggers' = triggers + 1
  /\ enabled => "getWebhooks" \notin PlaywrightScope
  /\ ret' = <<"triggerWebhooks", triggers + 1, "returned">>
  /\ UNCHANGED <<enabled, hooks, posts, tests>>
  /\ UNCHANGED <<memVars, bullVars, routeVars, sigVars, sysVars>>

\* POST /test up to `await fetch` in sendWebhook: 400 for an invalid url or
\* event, else the POST of JSON.stringify(testData), signed when a secret
\* was given.
testRoute(body) ==
  /\ IF ~body.url \/ ~body.event
       THEN /\ ret' = <<"test", 0, "400">>
            /\ UNCHANGED <<posts, tests>>
       ELSE /\ Len(posts) < MaxTests
            /\ posts' = Append(posts, [to |-> 0, body |-> testData("message.new"),
                                       signed |-> body.secret])
            /\ tests' = tests + 1
            /\ ret' = NoRet
  /\ UNCHANGED <<enabled, hooks, triggers>>
  /\ UNCHANGED <<memVars, bullVars, routeVars, sigVars, sysVars>>

\* POST /test resumes after `await fetch`: sendWebhook throws on a network
\* error and on a non-2xx answer, and the route answers 500; else success.
testRouteResume(ok) ==
  /\ tests > 0
  /\ tests' = tests - 1
  /\ ret' = <<"test", 0, IF ok THEN "success" ELSE "500">>
  /\ UNCHANGED <<enabled, hooks, posts, triggers>>
  /\ UNCHANGED <<memVars, bullVars, routeVars, sigVars, sysVars>>

NextHook ==
  \/ triggerWebhooks
  \/ \E body \in [url : BOOLEAN, event : BOOLEAN, secret : BOOLEAN] :
       testRoute(body)
  \/ \E ok \in BOOLEAN : testRouteResume(ok)

InitWebhooks == InitQueues /\ InitHooks /\ InitSigNone /\ InitSystems

SpecHook == InitWebhooks /\ [][NextHook]_vars

(***************************************************************************)
(* Part IV models verifyWebhookSignature of src/utils/webhook.js.  A       *)
(* string is the sequence of its characters and Null is JavaScript's null. *)
(* SHA-256 is stood for by a digest of DigestBytes bytes that differs for  *)
(* any two (secret, payload) pairs of the bounded input sets: HMAC is      *)
(* taken to be free of collisions.                                         *)
(***************************************************************************)
MaxPayloadLen == 2    \* characters of a payload
MaxSecretLen == 1     \* characters of a secret
DigestBytes == 2      \* bytes of a digest (32 for SHA-256)

Null == <<"null">>
Prefix == <<"s", "h", "a", "2", "5", "6", "=">>
HexDigits == <<"0", "1", "2", "3", "4", "5", "6", "7", "8", "9",
               "a", "b", "c", "d", "e", "f">>

IsHex(c) == \E v \in 1..16 : HexDigits[v] = c
HexVal(c) == (CHOOSE v \in 1..16 : HexDigits[v] = c) - 1

RECURSIVE Pow(_, _)
Pow(b, e) == IF e = 0 THEN 1 ELSE b * Pow(b, e - 1)

\* digest('hex'): the bytes of n, two lower-case hex characters each
RECURSIVE ToHex(_, _)
ToHex(n, bytes) ==
  IF bytes = 0 THEN <<>>
  ELSE ToHex(n \div 256, bytes - 1)
         \o <<HexDigits[((n % 256) \div 16) + 1], HexDigits[(n % 16) + 1]>>

\* the strings over an alphabet, up to a length
RECURSIVE Strings(_, _)
Strings(alphabet, len) ==
  IF len = 0 THEN {<<>>}
  ELSE LET shorter == Strings(alphabet, len - 1) IN
       shorter \cup {Append(t, c) : t \in shorter, c \in alphabet}

Payloads == Strings({"x", "y"}, MaxPayloadLen)
Secrets == Strings({"k"}, MaxSecretLen)

\* a number that differs for any two payloads
RECURSIVE PayloadCode(_)
PayloadCode(payload) ==
  IF payload = <<>> THEN 0
  ELSE 3 * PayloadCode(SubSeq(payload, 1, Len(payload) - 1))
         + (IF payload[Len(payload)] = "x" THEN 1 ELSE 2)

\* crypto.createHmac('sha256', secret) and update(payload) throw a
\* TypeError for null
HmacThrows(secret, payload) == secret = Null \/ payload = Null

\* crypto.createHmac('sha256', secret).update(payload).digest('hex')
Hmac(secret, payload) ==
       ToHex((Len(secret) * Pow(3, MaxPayloadLen + 1) + PayloadCode(payload))
               % Pow(256, DigestBytes), DigestBytes)

\* the signature header of sendWebhook: `sha256=${signature}`
signOf(payload, secret) == Prefix \o Hmac(secret, payload)

\* a replace that leaves the 'sha256=' prefix in the string
Replace_KeepsPrefix(str, pattern) == str

\* String.prototype.replace(pattern, ''): the string without the first
\* occurrence of the pattern
Replace(str, pattern) ==
  LET n == Len(pattern)
      At(i) == i + n - 1 <= Len(str) /\ SubSeq(str, i, i + n - 1) = pattern IN
  IF \E i \in 1..Len(str) : At(i)
    THEN LET i == CHOOSE i \in 1..Len(str) : At(i) /\ \A k \in 1..(i-1) : ~At(k)
         IN SubSeq(str, 1, i - 1) \o SubSeq(str, i + n, Len(str))
    ELSE str

\* Buffer.from(str, 'hex'): one byte for each pair of hex characters, up to
\* the first pair that is not hex; a last single character is dropped
RECURSIVE BufferFromHex(_)
BufferFromHex(str) ==
  IF Len(str) < 2 \/ ~IsHex(str[1]) \/ ~IsHex(str[2]) THEN <<>>
  ELSE <<16 * HexVal(str[1]) + HexVal(str[2])>>
         \o BufferFromHex(SubSeq(str, 3, Len(str)))

\* crypto.timingSafeEqual(a, b): a RangeError for buffers of different
\* byte length, else whether the bytes are equal
timingSafeEqual(a, b) ==
  IF Len(a) # Len(b) THEN "throw" ELSE IF a = b THEN "true" ELSE "false"

\* the try block of verifyWebhookSignature
verifyTry(payload, signature, secret) ==
  IF HmacThrows(secret, payload) \/ signature = Null THEN "throw"
  ELSE LET expectedSignature == Hmac(secret, payload)
           receivedSignature == Replace(signature, Prefix) IN
       timingSafeEqual(BufferFromHex(expectedSignature),
                       BufferFromHex(receivedSignature))

\* verifyWebhookSignature: the try block, and `return false` in the catch
verifyWebhookSignature(payload, signature, secret) ==
  LET result == verifyTry(payload, signature, secret) IN
  IF result = "throw" THEN "false" ELSE result

\* the signatures a caller may present: what sendWebhook computes for some
\* payload and secret, the same without its prefix, with a character less,
\* with characters after the digest, in upper case, not hex at all, null
Signatures ==
  LET signed == {signOf(p, k) : p \in Payloads, k \in Secrets} IN
  signed
    \cup {Replace(sg, Prefix) : sg \in signed}
    \cup {SubSeq(sg, 1, Len(sg) - 1) : sg \in signed}
    \cup {sg \o <<"z", "z">> : sg \in signed}
    \cup {sg \o <<"0">> : sg \in signed}
    \cup {<<"z", "z">>, <<>>, Prefix, Null}

InitSig ==
  /\ vin \in [payload : Payloads \cup {Null}, signature : Signatures,
              secret : Secrets \cup {Null}]
  /\ verdict = "none"

\* the call verifyWebhookSignature(payload, signature, secret)
verify ==
  /\ verdict = "none"
  /\ verdict' = verifyWebhookSignature(vin.payload, vin.signature, vin.secret)
  /\ ret' = <<"verifyWebhookSignature", 0, "returned">>
  /\ UNCHANGED vin
  /\ UNCHANGED <<memVars, bullVars, routeVars, hookVars, sysVars>>

NextSig == verify

InitVerify == InitQueues /\ InitHooksNone /\ InitSig /\ InitSystems

SpecSig == InitVerify /\ [][NextSig]_vars

(***************************************************************************)
(* Part V models the browser session of src/playwright.js: the page        *)
(* listeners of setupPageEventListeners, handleDisconnection and           *)
(* reconnect.  The module calls initWhatsAppBot (lines 178 and 406) and    *)
(* src/index.js imports it from this module, but the module neither        *)
(* declares nor imports it (PlaywrightScope): as the file stands the call  *)
(* throws a ReferenceError, which is the outcome FALSE below.  The outcome *)
(* TRUE is the call of a module that declares it: the bot is connected     *)
(* again, with a new browser and a new page whose listeners are            *)
(* registered.                                                             *)
(***************************************************************************)
PageEvents == {"close", "crash"}

\* Math.min(1000 * Math.pow(2, reconnectAttempts), 30000)
backoffTime(n) ==
  IF BackoffBase * Pow(2, n) < BackoffCap THEN BackoffBase * Pow(2, n)
  ELSE BackoffCap

\* what a call of initWhatsAppBot leaves behind
initWhatsAppBot(ok) ==
  IF ok THEN /\ browser' = "open"
             /\ pageEvents' = PageEvents
             /\ sinceConnected' = 0
  ELSE UNCHANGED <<browser, pageEvents, sinceConnected>>

botFrame == UNCHANGED <<memVars, bullVars, routeVars, hookVars, sigVars,
                        bootVars, aiVars>>

\* src/index.js: the server starts the bot
startBot(ok) ==
  /\ browser = "null"
  /\ rpc = "idle"
  /\ hd = <<>>
  /\ initWhatsAppBot(ok)
  /\ ret' = <<"initWhatsAppBot", 0, IF ok THEN "returned" ELSE "threw">>
  /\ UNCHANGED <<reconnectAttempts, hd, hdCalls, rpc>>
  /\ botFrame

\* page.on('close') / page.on('crash'): the listener calls
\* handleDisconnection, which runs up to `await updateSessionStatus`
pageEvent(e) ==
  /\ e \in pageEvents
  /\ hdCalls < MaxDisconnects
  /\ pageEvents' = pageEvents \ {e}
  /\ hdCalls' = hdCalls + 1
  /\ hd' = Append(hd, [pc |-> "updateSessionStatus", backoffTime |-> 0,
                       attempt |-> 0])
  /\ ret' = NoRet
  /\ UNCHANGED <<browser, reconnectAttempts, sinceConnected, rpc>>
  /\ botFrame

\* reconnectAttempts++, the backoff time and the start of the timer
handleDisconnectionBackoff(k) ==
  /\ reconnectAttempts' = reconnectAttempts + 1
  /\ sinceConnected' = sinceConnected + 1
  /\ hd' = [hd EXCEPT ![k] = [pc |-> "timer",
                              backoffTime |-> backoffTime(reconnectAttempts + 1),
                              attempt |-> sinceConnected + 1]]

\* handleDisconnection after `await updateSessionStatus`: browser.close()
\* when there is a browser
handleDisconnectionStatus(k, ok) ==
  /\ hd[k].pc = "updateSessionStatus"
  /\ IF ~ok
       THEN /\ hd' = Splice(hd, k)
            /\ ret' = <<"handleDisconnection", 0, "caught">>
            /\ UNCHANGED <<browser, reconnectAttempts, sinceConnected>>
       ELSE /\ ret' = NoRet
            /\ IF browser # "null"
                 THEN /\ browser' = "closed"
                      /\ hd' = [hd EXCEPT ![k].pc = "close"]
                      /\ UNCHANGED <<reconnectAttempts, sinceConnected>>
                 ELSE /\ handleDisconnectionBackoff(k)
                      /\ UNCHANGED browser
  /\ UNCHANGED <<pageEvents, hdCalls, rpc>>
  /\ botFrame

\* handleDisconnection after `await browser.close()`
handleDisconnectionClosed(k, ok) ==
  /\ hd[k].pc = "close"
  /\ IF ok THEN /\ handleDisconnectionBackoff(k)
                /\ ret' = NoRet
     ELSE /\ hd' = Splice(hd, k)
          /\ ret' = <<"handleDisconnection", 0, "caught">>
          /\ UNCHANGED <<reconnectAttempts, sinceConnected>>
  /\ UNCHANGED <<browser, pageEvents, hdCalls, rpc>>
  /\ botFrame

\* the timer of backoffTime ms fires, then `await initWhatsAppBot()`
handleDisconnectionInit(k, ok) ==
  /\ hd[k].pc = "timer"
  /\ initWhatsAppBot(ok)
  /\ hd' = Splice(hd, k)
  /\ ret' = <<"handleDisconnection", 0, IF ok THEN "returned" ELSE "caught">>
  /\ UNCHANGED <<reconnectAttempts, hdCalls, rpc>>
  /\ botFrame

\* reconnect(): browser.close() when there is a browser
reconnect ==
  /\ rpc = "idle"
  /\ browser # "null"
  /\ browser' = "closed"
  /\ rpc' = "close"
  /\ ret' = NoRet
  /\ UNCHANGED <<pageEvents, reconnectAttempts, hd, hdCalls, sinceConnected>>
  /\ botFrame

\* reconnect after `await browser.close()`: browser = null, page = null,
\* then `await initWhatsAppBot()`
reconnectClosed(ok) ==
  /\ rpc = "close"
  /\ IF ok THEN /\ browser' = "null"
                /\ rpc' = "init"
                /\ ret' = NoRet
     ELSE /\ rpc' = "idle"
          /\ ret' = <<"reconnect", 0, "threw">>
          /\ UNCHANGED browser
  /\ UNCHANGED <<pageEvents, reconnectAttempts, hd, hdCalls, sinceConnected>>
  /\ botFrame

reconnectInit(ok) ==
  /\ rpc = "init"
  /\ initWhatsAppBot(ok)
  /\ rpc' = "idle"
  /\ ret' = <<"reconnect", 0, IF ok THEN "returned" ELSE "threw">>
  /\ UNCHANGED <<reconnectAttempts, hd, hdCalls>>
  /\ botFrame

NextBot ==
  \/ \E ok \in BOOLEAN : startBot(ok)
  \/ \E e \in PageEvents : pageEvent(e)
  \/ \E k \in 1..Len(hd), ok \in BOOLEAN : handleDisconnectionStatus(k, ok)
  \/ \E k \in 1..Len(hd), ok \in BOOLEAN : handleDisconnectionClosed(k, ok)
  \/ \E k \in 1..Len(hd), ok \in BOOLEAN : handleDisconnectionInit(k, ok)
  \/ reconnect
  \/ \E ok \in BOOLEAN : reconnectClosed(ok)
  \/ \E ok \in BOOLEAN : reconnectInit(ok)

SpecBot == Init /\ [][NextBot]_vars

(***************************************************************************)
(* Part VI models the serverless entry point, src/api/index.js, with the   *)
(* in-memory store of src/api/db.js (no POSTGRES_URL).  A request is a     *)
(* macrotask; of the awaits of initializeSystems only `await initAI()`     *)
(* (ZAI.create) waits for I/O, the others resume in the same macrotask,    *)
(* so a handler execution has two segments when the systems are not        *)
(* initialized and one when they are.                                      *)
(***************************************************************************)
bootFrame == UNCHANGED <<memVars, bullVars, routeVars, hookVars, sigVars,
                         botVars, aiVars>>

\* app(req, res): the route may save a row (a job, a message, a webhook)
app(rows, saves) == IF saves THEN rows + 1 ELSE rows

\* handler(req, res) of request r, up to its first wait for I/O
handler(r, saves) ==
  /\ hpc[r] = "none"
  /\ IF systemsInitialized
       THEN /\ dbRows' = app(dbRows, saves)
            /\ hpc' = [hpc EXCEPT ![r] = "done"]
            /\ ret' = <<"handler", r, "returned">>
            /\ UNCHANGED runs
       ELSE \* initDatabase (db = a new empty store), initQueue, initAI
            /\ dbRows' = 0
            /\ runs' = [runs EXCEPT !["initDatabase"] = @ + 1,
                                    !["initQueue"] = @ + 1,
                                    !["initAI"] = @ + 1]
            /\ hpc' = [hpc EXCEPT ![r] = "initAI"]
            /\ ret' = NoRet
  /\ UNCHANGED <<systemsInitialized, initThrew>>
  /\ bootFrame

\* initializeSystems after `await initAI()`: initWhatsAppBot, the flag, and
\* the request itself; or the catch blocks and the 500 response
initializeSystemsResume(r, ok, saves) ==
  /\ hpc[r] = "initAI"
  /\ hpc' = [hpc EXCEPT ![r] = "done"]
  /\ IF ok THEN /\ runs' = [runs EXCEPT !["initWhatsAppBot"] = @ + 1]
                /\ systemsInitialized' = TRUE
                /\ dbRows' = app(dbRows, saves)
                /\ ret' = <<"handler", r, "returned">>
                /\ UNCHANGED initThrew
     ELSE /\ initThrew' = TRUE
          /\ ret' = <<"handler", r, "caught">>
          /\ UNCHANGED <<runs, systemsInitialized, dbRows>>
  /\ bootFrame

NextBoot ==
  \/ \E r \in 1..MaxRequests, saves \in BOOLEAN : handler(r, saves)
  \/ \E r \in 1..MaxRequests, ok, saves \in BOOLEAN :
       initializeSystemsResume(r, ok, saves)

SpecBoot == Init /\ [][NextBoot]_vars

(***************************************************************************)
(* Part VII models the conversation history of src/ai.js.  A message is    *)
(* the serial number of its insertion.                                     *)
(***************************************************************************)
\* values of maxHistoryLength a configuration update carries (the route
\* accepts the integers 1..50); 0 stands for an absent key
HistoryLengths == {1, DefaultHistoryLength \div 2, DefaultHistoryLength}

NewConfigs == [enabled : {"undefined", "true", "false"},
               maxHistoryLength : {0} \cup HistoryLengths]

aiFrame == UNCHANGED <<memVars, bullVars, routeVars, hookVars, sigVars,
                       botVars, bootVars>>

\* history.push(message), then one history.shift() when the history is
\* longer than AI_CONFIG.maxHistoryLength
addToConversationHistory(hist, chatId, message, maxHistoryLength) ==
  LET history == Append(hist[chatId], message) IN
  [hist EXCEPT ![chatId] = IF Len(history) > maxHistoryLength
                             THEN Tail(history) ELSE history]

\* initAI: ZAI.create() and the test completion
initAI(outcome) ==
  /\ ~zai
  /\ AI_CONFIG.enabled
  /\ zai' = (outcome # "createThrew")
  /\ AI_CONFIG' = [AI_CONFIG EXCEPT !.enabled = (outcome = "ok")]
  /\ ret' = <<"initAI", 0, IF outcome = "ok" THEN "true" ELSE "false">>
  /\ UNCHANGED <<conversationHistory, gens, msgs>>
  /\ aiFrame

\* generateAIResponse up to `await zai.chat.completions.create`
generateAIResponse(chatId) ==
  /\ msgs + 2 * Len(gens) + 2 <= MaxMessages
  /\ Len(gens) < MaxInflight
  /\ IF ~AI_CONFIG.enabled \/ ~zai
       THEN /\ ret' = <<"generateAIResponse", chatId, "null">>
            /\ UNCHANGED <<conversationHistory, gens, msgs>>
       ELSE /\ conversationHistory' =
                 addToConversationHistory(conversationHistory, chatId,
                                          msgs + 1, AI_CONFIG.maxHistoryLength)
            /\ msgs' = msgs + 1
            /\ gens' = Append(gens, chatId)
            /\ ret' = NoRet
  /\ UNCHANGED <<AI_CONFIG, zai>>
  /\ aiFrame

\* generateAIResponse after the completion request
generateAIResponseResume(k, outcome) ==
  /\ gens' = Splice(gens, k)
  /\ IF outcome = "response"
       THEN /\ conversationHistory' =
                 addToConversationHistory(conversationHistory, gens[k],
                                          msgs + 1, AI_CONFIG.maxHistoryLength)
            /\ msgs' = msgs + 1
            /\ ret' = <<"generateAIResponse", gens[k], "response">>
       ELSE /\ ret' = <<"generateAIResponse", gens[k],
                        IF outcome = "empty" THEN "null" ELSE "fallback">>
            /\ UNCHANGED <<conversationHistory, msgs>>
  /\ UNCHANGED <<AI_CONFIG, zai>>
  /\ aiFrame

\* updateAIConfiguration(newConfig), for the keys the history depends on
updateAIConfiguration(newConfig) ==
  /\ AI_CONFIG' =
       [enabled |-> IF newConfig.enabled = "undefined" THEN AI_CONFIG.enabled
                    ELSE newConfig.enabled = "true",
        maxHistoryLength |-> IF newConfig.maxHistoryLength = 0
                               THEN AI_CONFIG.maxHistoryLength
                               ELSE newConfig.maxHistoryLength]
  /\ ret' = <<"updateAIConfiguration", 0, "returned">>
  /\ UNCHANGED <<zai, conversationHistory, gens, msgs>>
  /\ aiFrame

NextAI ==
  \/ \E outcome \in {"ok", "createThrew", "testThrew"} : initAI(outcome)
  \/ \E chatId \in Chats : generateAIResponse(chatId)
  \/ \E k \in 1..Len(gens), outcome \in {"response", "empty", "threw"} :
       generateAIResponseResume(k, outcome)
  \/ \E newConfig \in NewConfigs : updateAIConfiguration(newConfig)

SpecAI == Init /\ [][NextAI]_vars

\* ======================================================== claims, part I
Active(k) == procs[k].pc \in {"upd_processing", "timer"}

\* C1: a job's status changes only along pending -> processing, processing ->
\* completed, processing -> failed, pending -> cancelled and failed ->
\* pending; completed and cancelled are never left.
StatusEdges ==
  {<<"pending", "processing">>, <<"processing", "completed">>,
   <<"processing", "failed">>, <<"pending", "cancelled">>,
   <<"failed", "pending">>}
C1_StatusGraph ==
  [][\A h \in Handles :
       \/ jobs'[h].status = jobs[h].status
       \/ <<jobs[h].status, jobs'[h].status>> \in StatusEdges]_vars

\* C2: every job that addJob returns has status pending, and no two jobs
\* ever enqueued have the same id.
C2_PendingAndUniqueId ==
  /\ (ret[1] = "addJob" /\ ret[3] # "threw") => ret[3] = "pending"
  /\ \A h1, h2 \in Handles : h1 # h2 => jobs[h1].id # jobs[h2].id

\* C3: no job is taken for processing more than MaxAttempts = 3 times,
\* whatever retry operations are called.
C3_AtMostThreeAttempts == \A h \in Handles : attempts[h] <= MaxAttempts

\* C4: at most one job is in the processing state.
C4_OneJobProcessing ==
  Cardinality({h \in Handles : jobs[h].status = "processing"}) <= 1

\* C5: no job is held by two processJob executions that are between taking
\* it out of pending and finishing its delivery.
C5_NoJobProcessedTwice ==
  \A k1, k2 \in 1..Len(procs) :
    (k1 # k2 /\ Active(k1) /\ Active(k2)) => procs[k1].job # procs[k2].job

\* C6: once cancelJob has cancelled a pending job, the job is never again
\* in pending or processing and never changes status.
C6_CancelledForGood ==
  [][\A h \in Handles :
       jobs[h].status = "cancelled" =>
         /\ jobs'[h].status = "cancelled"
         /\ ~InSeq(pending', h)
         /\ ~InSeq(processing', h)]_vars

\* C8: a retry operation re-queues only jobs whose status is failed; the
\* retryCount of a job in any other status is left alone.
C8_RetryOnlyFailed ==
  [][\A h \in Handles :
       jobs'[h].retryCount # jobs[h].retryCount => jobs[h].status = "failed"]_vars

\* C9: every job's retryCount is at most the maximum of 3.
C9_RetryCountCapped == \A h \in Handles : jobs[h].retryCount <= MaxAttempts

\* C18: cleanup removes a job from the in-memory collections only when the
\* job is completed or failed and older than a (positive) age threshold, and
\* removes its persisted record with it; no other job is touched.
C18_CleanupOnlyOldTerminal ==
  [][ret'[1] = "clearCompletedJobs" =>
       /\ \A h \in Handles :
            (InSeq(completed, h) /\ ~InSeq(completed', h)) =>
              /\ jobs[h].completedAt < now
              /\ \A i \in 1..Len(dbJobs') : dbJobs'[i].jobId # jobs[h].id
       /\ UNCHANGED <<jobs, pending, processing, failed>>]_vars

\* C19: when no execution is suspended at an await, so that nothing more
\* happens to the queue unless a new request arrives, every job that was
\* enqueued has left pending and processing: it is completed, failed or
\* cancelled.
C19_NoJobLeftBehind ==
  Inflight = 0 =>
    \A h \in Handles : jobs[h].status \in {"completed", "failed", "cancelled"}

\* no job and no persisted row has this id
UnknownId(jobId) ==
  /\ \A h \in Handles : jobs[h].id # jobId
  /\ \A i \in 1..Len(dbJobs) : dbJobs[i].jobId # jobId

\* C20: cancel and get job of an id that does not exist are answered as
\* not found (404), not as a success and not as a bad input (400).
C20_UnknownIdIsNotFound ==
  /\ (ret[1] = "cancelJob" /\ UnknownId(ret[2])) => cancelJobResponse(ret[3]) = "404"
  /\ (ret[1] = "getJob" /\ UnknownId(ret[2])) => ret[3] = "404"

\* C21: no processJob execution ends with its promise rejected: every error
\* raised while a job is processed is caught and turned into a transition.
C21_NoUnhandledRejection ==
  ~(ret[1] = "processJob" /\ ret[3] = "rejected")

\* C22: a persistence call that throws does not change the job's course in
\* memory.  The delivery of this queue (the timer) always succeeds, so a job
\* that is processing stays processing until it becomes completed.
C22_PersistenceFailureKeepsCourse ==
  [][\A h \in Handles :
       jobs[h].status = "processing" =>
         jobs'[h].status \in {"processing", "completed"}]_vars

\* C23: when no persistence write has failed and no operation is in
\* progress, the in-memory counts and the database counts of getQueueStatus
\* are the same.
C23_StatusViewsAgree ==
  Inflight = 0 => getQueueStatus.inMemory = getQueueStatus.database

\* the collections that hold job h, each as often as it holds it
Holders(h) ==
  LET Occ(name, arr) == {<<name, i>> : i \in {k \in 1..Len(arr) : arr[k] = h}} IN
  Occ("pending", pending) \cup Occ("processing", processing)
    \cup Occ("completed", completed) \cup Occ("failed", failed)

\* C25: every job is in exactly one of pending, processing, completed,
\* failed, the one that its status names; a completed job may have been
\* cleared and then is in none.
C25_OneCollectionPerJob ==
  \A h \in Handles :
    \/ \E i \in 1..Len(jobs) : Holders(h) = {<<jobs[h].status, i>>}
    \/ jobs[h].status = "completed" /\ Holders(h) = {}

\* C26: when addJob has thrown, the job it had created is in no collection
\* of the queue.
C26_FailedAddLeavesNoJob ==
  (ret[1] = "addJob" /\ ret[3] = "threw") => Holders(ret[2]) = {}

\* ======================================================= claims, part II
BullTerminal == {"completed", "failed", "removed"}

\* C7: a cancel request for a job that is processing, completed or failed is
\* refused, and leaves the job and its persisted status as they were.
C7_CancelRefusedUnlessPending ==
  [][\A id \in BullIds :
       (ret'[1] = "cancel" /\ ret'[2] = id /\ Exists(id)
          /\ bq[id].state \in {"active", "completed", "failed"})
       => (ret'[3] # "success" /\ bq' = bq /\ qrows' = qrows)]_vars

\* C10: while a pause is in force no job starts processing; whenever no
\* pause is in force, every job in the queue reaches a terminal state (or a
\* new pause is requested first).
C10_PauseHoldsJobsResumeDrains ==
  /\ [][pauseAcked =>
          \A id \in 1..Len(bq) :
            bq'[id].state = "active" => bq[id].state = "active"]_vars
  /\ \A id \in BullIds :
       (id <= Len(bq) /\ ~pauseAcked)
         ~> (pauseAcked \/ (id <= Len(bq) /\ bq[id].state \in BullTerminal))

\* a pause is in force and holds back a job whose delay has elapsed
C10_Witness == pauseAcked /\ \E id \in 1..Len(bq) : bq[id].state = "waiting"

\* a job that no worker has started yet.  A started job has attemptsMade > 0
\* or is active.
NotStarted(id) == bq[id].state \in {"delayed", "waiting"} /\ bq[id].attemptsMade = 0

\* C12: while a normal-priority job and a high-priority job enqueued after
\* it are both still pending, the worker does not take the normal one: the
\* high-priority job is taken first.
C12_HighBeforeNormal ==
  [][\A a, b \in BullIds :
       (a < b /\ b <= Len(bq) /\ NotStarted(a) /\ NotStarted(b)
          /\ bq[a].priority = PriorityOf("normal")
          /\ bq[b].priority = PriorityOf("high"))
       => bq'[a].state # "active"]_vars

\* C13: of two jobs of the same priority that have not started, the one
\* enqueued later is not taken first.
C13_FifoWithinTier ==
  [][\A a, b \in BullIds :
       (a < b /\ b <= Len(bq) /\ NotStarted(a) /\ NotStarted(b)
          /\ bq[a].priority = bq[b].priority)
       => bq'[b].state # "active"]_vars

\* C24: a job whose type is send_message, send_media or send_template and
\* that the worker has run was dispatched to a send function: processJob
\* did not take the unknown-job-type branch for it.
C24_KnownTypeIsDispatched ==
  \A id \in 1..Len(bq) :
    (bq[id].attemptsMade > 0 /\ bq[id].name \in RecognizedTypes)
      => processJobDispatch(bq[id].dataJobType) = "sent"

\* ====================================================== claims, part III
\* the job spec of spec.md 4.1: a recognized type, a recipient, content or
\* mediaUrl, and a mediaType with every mediaUrl
ValidJobSpec(b) ==
  /\ b.type \in RecognizedTypes
  /\ b.recipient
  /\ b.content \/ b.mediaUrl
  /\ b.mediaUrl => b.mediaType

\* C11: an enqueue request whose job spec is invalid adds no job to either
\* queue: a job is added only by a request whose body is a valid job spec.
C11_InvalidSpecAddsNothing ==
  [][(Len(jobs') > Len(jobs) \/ Len(bq') > Len(bq)) => ValidJobSpec(req')]_vars

\* POST requests the fan-out has sent to the webhook of row i
PostsTo(i) == Cardinality({k \in 1..Len(posts) : posts[k].to = i})

\* C14: triggerWebhooks returns without throwing, and when it returns every
\* subscriber that matches the event and whose endpoint is healthy has
\* received one POST for each notification, whatever the other endpoints do.
C14_FanOutReachesHealthySubscribers ==
  ret[1] = "triggerWebhooks" =>
    /\ ret[3] = "returned"
    /\ enabled =>
         \A i \in 1..Len(hooks) :
           (hooks[i].match /\ hooks[i].up) => PostsTo(i) = triggers

\* C17: every body that is POSTed to a webhook is the envelope of
\* createWebhookPayload: event, timestamp, data and version "1.0".
C17_EveryBodyIsTheEnvelope ==
  \A k \in 1..Len(posts) :
    LET body == posts[k].body IN
    body = [createWebhookPayload(body.event, body.data)
              EXCEPT !.timestamp = body.timestamp]

\* ======================================================= claims, part IV
\* C15: a signature that sendWebhook computes for a payload and a secret
\* verifies against that secret for that payload and for no other payload.
C15_SignatureRoundTrip ==
  \A p \in Payloads :
    (verdict # "none" /\ vin.payload # Null /\ vin.secret # Null
       /\ vin.signature = signOf(p, vin.secret))
    => (verdict = "true") = (vin.payload = p)

\* a payload was verified against its own signature and accepted
C15_Witness ==
  /\ verdict = "true"
  /\ vin.payload # Null /\ vin.secret # Null
  /\ vin.signature = signOf(vin.payload, vin.secret)

\* a signature that is not 'sha256=' followed by the hex characters of one
\* digest and nothing else
Malformed(signature) ==
  \/ signature = Null
  \/ Len(signature) # Len(Prefix) + 2 * DigestBytes
  \/ SubSeq(signature, 1, Len(Prefix)) # Prefix
  \/ \E i \in (Len(Prefix) + 1)..Len(signature) : ~IsHex(signature[i])

\* C16: verifyWebhookSignature returns false, and does not throw, for a
\* malformed signature and for a null payload, signature or secret.
C16_MalformedIsRejected ==
  (verdict # "none"
     /\ (Malformed(vin.signature) \/ vin.payload = Null \/ vin.secret = Null))
  => verdict = "false"

C28_OneReconnectionInProgress == Len(hd) <= 1

\* ======================================================= claims, part VI
\* C29: the serverless handler initializes the systems at most once: for
\* requests that arrive before initialization has finished, initDatabase,
\* initQueue, initAI and initWhatsAppBot each run once.
C29_SystemsInitializedOnce ==
  ~initThrew => \A s \in Systems : runs[s] <= 1

\* ====================================================== claims, part VII
\* C30: the stored conversation history of every chat never holds more than
\* maxHistoryLength messages, whatever generateAIResponse and
\* updateAIConfiguration calls came before.
C30_HistoryWithinMaxLength ==
  \A chatId \in Chats :
    Len(conversationHistory[chatId]) <= AI_CONFIG.maxHistoryLength

====
